---- MODULE Spec2Model ----
(***************************************************************************)
(* A model of libnnbenchmark/run_tflite.cpp: the BenchmarkModel class that *)
(* drives a TFLite interpreter (input injection, timed inference, output   *)
(* capture, error metric) and the dynamically loaded tracing functions.    *)
(*                                                                         *)
(* Numbers.  A C float is modelled as an extended rational [n, d]:         *)
(*   d > 0  the finite value n/d in lowest terms,                          *)
(*   d = 0  n = 1: +Inf, n = -1: -Inf, n = 0: NaN.                         *)
(* Arithmetic follows IEEE 754 on these values except for rounding: the    *)
(* sampled values are small enough for sums and products to be exact.      *)
(***************************************************************************)
EXTENDS Integers, Sequences, FiniteSets, TLC

VARIABLES
    mTfliteModel,    \* the member is non-null
    mTfliteInterpreter, \* the member is non-null
    allocated,       \* AllocateTensors() succeeded: the tensors have storage
    intermediates,   \* the interpreter's tensors between the input and the output
    path,            \* dumpAllLayers(): the directory, as characters
    files,           \* what fopen/fwrite/fclose wrote, in order
    ndebug,          \* build: NDEBUG defined, assert() expands to nothing
    kTraceFunc,      \* the two dlsym results: TRUE = non-null function pointer
    inputType,       \* element type of the interpreter's first input tensor
    inputData,       \* bytes of the first input tensor
    outputType,      \* element type of the interpreter's first output tensor
    outputData,      \* bytes of the first output tensor (bytes = Len)
    pc,              \* where the process is
    inOutData,       \* benchmark(): the sequence collection
    seqInferencesMaxCount,
    timeout,
    flags,
    results,         \* the caller's std::vector<InferenceResult>
    resultsAtCall,   \* its contents when benchmark() was entered
    seqInferenceIndex,
    inputOutputSequenceIndex,
    seq,             \* the sequence selected for the current step
    resetOk,         \* what the last resetStates() returned (the loop drops it)
    i,               \* inner loop index
    inferenceTotal,
    result,          \* the InferenceResult local last built
    ret,             \* value returned by the last call
    trace            \* calls made to the collaborators, in order

\* the engine's members and what dumpAllLayers() works on
engine == <<mTfliteModel, mTfliteInterpreter, allocated, intermediates, path, files>>

vars == <<engine, ndebug, kTraceFunc, inputType, inputData, outputType, outputData, pc,
          inOutData, seqInferencesMaxCount, timeout, flags, results,
          resultsAtCall, seqInferenceIndex, inputOutputSequenceIndex, seq,
          resetOk, i, inferenceTotal, result, ret, trace>>

-----------------------------------------------------------------------------
(* Floats *)

Abs(x) == IF x < 0 THEN -x ELSE x

Sign(x) == IF x < 0 THEN -1 ELSE IF x > 0 THEN 1 ELSE 0

RECURSIVE GCD(_, _)
GCD(a, b) == IF b = 0 THEN a ELSE GCD(b, a % b)

RECURSIVE Pow2(_)
Pow2(e) == IF e = 0 THEN 1 ELSE 2 * Pow2(e - 1)

\* n/d brought to the canonical form; d may be negative or zero
Norm(n, d) ==
    IF d = 0 THEN [n |-> Sign(n), d |-> 0]
    ELSE LET g == GCD(Abs(n), Abs(d))
         IN  [n |-> Sign(d) * (n \div g), d |-> Abs(d) \div g]

NaN == [n |-> 0, d |-> 0]
Zero == [n |-> 0, d |-> 1]

IsNaN(a) == a.n = 0 /\ a.d = 0

\* (float)x for an integer x
FromInt(x) == [n |-> x, d |-> 1]

FNeg(a) == [n |-> -a.n, d |-> a.d]

FAdd(a, b) ==
    IF IsNaN(a) \/ IsNaN(b) THEN NaN
    ELSE IF a.d = 0 /\ b.d = 0 THEN (IF a.n = b.n THEN a ELSE NaN)
    ELSE IF a.d = 0 THEN a
    ELSE IF b.d = 0 THEN b
    ELSE Norm(a.n * b.d + b.n * a.d, a.d * b.d)

FSub(a, b) == FAdd(a, FNeg(b))

FMul(a, b) ==
    IF IsNaN(a) \/ IsNaN(b) THEN NaN ELSE Norm(a.n * b.n, a.d * b.d)

FDiv(a, b) ==
    IF IsNaN(a) \/ IsNaN(b) THEN NaN ELSE Norm(a.n * b.d, a.d * b.n)

\* a > b; false when either is NaN
FGt(a, b) ==
    IF IsNaN(a) \/ IsNaN(b) THEN FALSE
    ELSE IF a = b THEN FALSE
    ELSE IF a.d = 0 THEN a.n = 1
    ELSE IF b.d = 0 THEN b.n = -1
    ELSE a.n * b.d > b.n * a.d

\* The float whose little-endian IEEE 754 binary32 encoding is b0 b1 b2 b3.
DecodeFloat(b0, b1, b2, b3) ==
    LET sign == IF b3 \div 128 = 1 THEN -1 ELSE 1
        exp  == (b3 % 128) * 2 + (b2 \div 128)
        mant == (b2 % 128) * 65536 + b1 * 256 + b0
    IN  IF exp = 255 THEN (IF mant = 0 THEN [n |-> sign, d |-> 0] ELSE NaN)
        ELSE IF exp = 0 THEN (IF mant = 0 THEN Zero ELSE Norm(sign * mant, Pow2(149)))
        ELSE IF exp >= 150 THEN Norm(sign * (Pow2(23) + mant) * Pow2(exp - 150), 1)
        ELSE Norm(sign * (Pow2(23) + mant), Pow2(150 - exp))

-----------------------------------------------------------------------------
(* Tensors and the caller's data *)

kTfLiteFloat32 == "kTfLiteFloat32"
kTfLiteUInt8 == "kTfLiteUInt8"
kTfLiteInt32 == "kTfLiteInt32"

\* sizeof(float)
SizeofFloat == 4

\* typed_tensor<uint8_t>: element k (from 1) of a byte buffer, as a float
UInt8At(data, k) == FromInt(data[k])

\* typed_tensor<float> / reinterpret_cast<const float*>: element k (from 1)
FloatAt(data, k) ==
    DecodeFloat(data[SizeofFloat * (k - 1) + 1], data[SizeofFloat * (k - 1) + 2],
                data[SizeofFloat * (k - 1) + 3], data[SizeofFloat * (k - 1) + 4])

\* FLAG_IGNORE_GOLDEN_OUTPUT and FLAG_DISCARD_INFERENCE_OUTPUT of run_tflite.h
FLAG_IGNORE_GOLDEN_OUTPUT == 1
FLAG_DISCARD_INFERENCE_OUTPUT == 2

\* (flags & flag) == 0 for a one-bit flag
FlagClear(f, flag) == (f \div flag) % 2 = 0

\* InferenceResult { computeTimeSec, meanSquareError, maxSingleError,
\*                   inferenceOutput, inputOutputSequenceIndex, inputOutputIndex }
InferenceResult(time, mse, maxErr, output, seqIndex, index) ==
    [computeTimeSec |-> time, meanSquareError |-> mse, maxSingleError |-> maxErr,
     inferenceOutput |-> output, inputOutputSequenceIndex |-> seqIndex,
     inputOutputIndex |-> index]

-----------------------------------------------------------------------------
(* BenchmarkModel::setInput, saveInferenceOutput, getOutputError *)

\* memcpy(raw, dataPtr, length): the first length bytes of the tensor replaced
Memcpy(dst, src, length) ==
    [k \in 1..Len(dst) |-> IF k <= length THEN src[k] ELSE dst[k]]

\* setInput: the value returned and the input tensor afterwards
setInput(type, tensor, dataPtr, length) ==
    IF type \in {kTfLiteFloat32, kTfLiteUInt8}
    THEN [ok |-> TRUE, tensor |-> Memcpy(tensor, dataPtr, length), log |-> <<>>]
    ELSE [ok |-> FALSE, tensor |-> tensor,
          log |-> <<"ERROR: Input tensor type not supported">>]

\* saveInferenceOutput: result->inferenceOutput after the insert at its end
saveInferenceOutput(res, tensor) ==
    [res EXCEPT !.inferenceOutput = @ \o tensor]

\* count elements of a buffer read as uint8_t, each converted to float
UInt8Elems(data, count) == [k \in 1..count |-> UInt8At(data, k)]

\* count elements of a buffer read as float
FloatElems(data, count) == [k \in 1..count |-> FloatAt(data, k)]

\* mutant of ErrorStep: the maximum tracks the absolute error
ErrorStep_AbsoluteMax(acc, produced, expected) ==
    LET err == FSub(produced, expected)
        mag == IF FGt(Zero, err) THEN FNeg(err) ELSE err
    IN  [max_error |-> IF FGt(mag, acc.max_error) THEN mag ELSE acc.max_error,
         err_sum |-> FAdd(acc.err_sum, FMul(err, err)),
         compared |-> acc.compared + 1]

\* mutant of ErrorStep: the error is the sum, not the difference
ErrorStep_Sum(acc, produced, expected) ==
    LET err == FAdd(produced, expected)
    IN  [max_error |-> IF FGt(err, acc.max_error) THEN err ELSE acc.max_error,
         err_sum |-> FAdd(acc.err_sum, FMul(err, err)),
         compared |-> acc.compared + 1]

\* One iteration of either element loop of getOutputError:
\*   float err = output_raw[i] - expected[i];
\*   if (err > max_error) max_error = err;
\*   err_sum += err*err;
ErrorStep(acc, produced, expected) ==
    LET err == FSub(produced, expected)
    IN  [max_error |-> IF FGt(err, acc.max_error) THEN err ELSE acc.max_error,
         err_sum |-> FAdd(acc.err_sum, FMul(err, err)),
         compared |-> acc.compared + 1]

\* The element loop of getOutputError from element k on.
RECURSIVE ErrorLoop(_, _, _, _)
ErrorLoop(output_raw, expected, k, acc) ==
    IF k > Len(output_raw) THEN acc
    ELSE ErrorLoop(output_raw, expected, k + 1,
                   ErrorStep(acc, output_raw[k], expected[k]))

\* getOutputError on the output tensor (type, tensor) with expected_data of the
\* given length; memory is what the loop reads through expected_data (the buffer
\* followed by whatever lies behind it).  fatal: the FATAL sites passed, in order;
\* the other fields are what the code computes if FATAL does not stop it.
getOutputError(type, tensor, memory, length) ==
    LET bytes == Len(tensor)
        sizeFatal == IF bytes # length THEN <<"FATAL: Wrong size of output tensor">> ELSE <<>>
        start == [max_error |-> Zero, err_sum |-> Zero, compared |-> 0]
        elements_count ==
            IF type = kTfLiteUInt8 THEN bytes
            ELSE IF type = kTfLiteFloat32 THEN bytes \div SizeofFloat
            ELSE 0
        acc ==
            IF type = kTfLiteUInt8
            THEN ErrorLoop(UInt8Elems(tensor, bytes), UInt8Elems(memory, bytes), 1, start)
            ELSE IF type = kTfLiteFloat32
            THEN ErrorLoop(FloatElems(tensor, bytes \div SizeofFloat),
                           FloatElems(memory, bytes \div SizeofFloat), 1, start)
            ELSE start
        typeFatal == IF type \in {kTfLiteUInt8, kTfLiteFloat32} THEN <<>>
                     ELSE <<"FATAL: Output sensor type not supported">>
    IN  [fatal |-> sizeFatal \o typeFatal,
         compared |-> acc.compared,
         meanSquareError |-> FDiv(acc.err_sum, FromInt(elements_count)),
         maxSingleError |-> acc.max_error]

\* FATAL(...): the message is logged, then assert(false), which ends the process
\* unless the build defines NDEBUG
FatalStops(nd, fatal) == fatal # <<>> /\ ~nd

-----------------------------------------------------------------------------
(* Sampled data *)

\* elements of an output tensor or of an expected buffer
MaxElems == 2

ByteSample == {0, 1, 255}

\* binary32, little-endian: 0.0, 1.0, 2.0, -1.0, +Inf, NaN
FloatSample ==
    { <<0, 0, 0, 0>>, <<0, 0, 128, 63>>, <<0, 0, 0, 64>>, <<0, 0, 128, 191>>,
      <<0, 0, 128, 127>>, <<0, 0, 192, 127>> }

ElemSample(type) ==
    IF type = kTfLiteUInt8 THEN {<<b>> : b \in ByteSample}
    ELSE IF type = kTfLiteFloat32 THEN FloatSample
    ELSE {<<0, 0, 0, 0>>, <<1, 0, 0, 0>>}

\* every buffer of at most n elements drawn from E
RECURSIVE BuffersOf(_, _)
BuffersOf(E, n) ==
    IF n = 0 THEN {<<>>}
    ELSE LET S == BuffersOf(E, n - 1) IN S \cup {s \o e : s \in S, e \in E}

\* what lies behind a buffer that is read past its end: count bytes of one value
Fill(byte, count) == [k \in 1..count |-> byte]

OverreadSample == {0, 255}

\* the values to consider behind an expected buffer: none is read unless the
\* buffer is shorter than the tensor
OverreadFills(expected, bytes) ==
    IF Len(expected) >= bytes THEN {0} ELSE OverreadSample

\* the memory getOutputError reads through expected_data when the tensor has
\* the given byte size
MemoryBehind(expected, bytes, fill) ==
    IF Len(expected) >= bytes THEN expected
    ELSE expected \o Fill(fill, bytes - Len(expected))

NoResult == InferenceResult(Zero, Zero, Zero, <<>>, 0, 0)

InOut(hasInput, input, output) ==
    [hasInput |-> hasInput, input |-> input, output |-> output]

-----------------------------------------------------------------------------
(* The error metric on its own: an interpreter whose first output tensor holds
   any sampled content, and a caller that hands getOutputError any sampled
   expected buffer and a fresh result. *)

\* an engine whose constructor ran to its end and whose tensors are allocated,
\* of a model with no tensor between its input and its output; nothing dumped
Constructed ==
    /\ mTfliteModel = TRUE
    /\ mTfliteInterpreter = TRUE
    /\ allocated = TRUE
    /\ intermediates = <<>>
    /\ path = <<>>
    /\ files = <<>>

InitErr ==
    /\ Constructed
    /\ ndebug \in BOOLEAN
    /\ kTraceFunc = [begin |-> TRUE, end |-> TRUE]
    /\ inputType = kTfLiteUInt8
    /\ inputData = <<0>>
    /\ outputType \in {kTfLiteUInt8, kTfLiteFloat32, kTfLiteInt32}
    /\ outputData = <<>>
    /\ pc = "ready"
    /\ inOutData = <<>>
    /\ seqInferencesMaxCount = 0
    /\ timeout = Zero
    /\ flags = 0
    /\ results = <<>>
    /\ resultsAtCall = <<>>
    /\ seqInferenceIndex = 0
    /\ inputOutputSequenceIndex = 0
    /\ seq = <<>>
    /\ resetOk = TRUE
    /\ i = 0
    /\ inferenceTotal = Zero
    /\ result = NoResult
    /\ ret = TRUE
    /\ trace = <<>>

\* runInference(): Invoke leaves any content in the output tensor
ErrRunInference ==
    /\ pc = "ready"
    /\ \E out \in BuffersOf(ElemSample(outputType), MaxElems) :
          outputData' = out
    /\ pc' = "invoked"
    /\ trace' = Append(trace, "Invoke")
    /\ UNCHANGED <<engine, ndebug, kTraceFunc, inputType, inputData, outputType, inOutData,
                   seqInferencesMaxCount, timeout, flags, results, resultsAtCall,
                   seqInferenceIndex, inputOutputSequenceIndex, seq, resetOk, i,
                   inferenceTotal, result, ret>>

\* getOutputError(data.output, data.output_size, &result)
ErrGetOutputError ==
    /\ pc = "invoked"
    /\ \E expected \in BuffersOf(ElemSample(outputType), MaxElems) :
       \E fill \in OverreadFills(expected, Len(outputData)) :
          LET e == getOutputError(outputType, outputData,
                                  MemoryBehind(expected, Len(outputData), fill),
                                  Len(expected))
          IN  /\ inOutData' = <<<<InOut(TRUE, <<>>, expected)>>>>
              /\ IF FatalStops(ndebug, e.fatal)
                 THEN /\ pc' = "aborted"
                      /\ trace' = Append(trace, e.fatal[1])
                      /\ result' = NoResult
                 ELSE /\ pc' = "computed"
                      /\ trace' = trace \o e.fatal \o Fill("compare", e.compared)
                      /\ result' = [NoResult EXCEPT
                                      !.meanSquareError = e.meanSquareError,
                                      !.maxSingleError = e.maxSingleError]
    /\ UNCHANGED <<engine, ndebug, kTraceFunc, inputType, inputData, outputType, outputData,
                   seqInferencesMaxCount, timeout, flags, results, resultsAtCall,
                   seqInferenceIndex, inputOutputSequenceIndex, seq, resetOk, i,
                   inferenceTotal, ret>>

NextErr == ErrRunInference \/ ErrGetOutputError

SpecErr == InitErr /\ [][NextErr]_vars

-----------------------------------------------------------------------------
(* The benchmark loop: sampled engines and arguments *)

\* outer steps a call may ask for
MaxSteps == 3

\* sequences in a collection
MaxSeqs == 2

\* entries in a sequence
MaxSeqLen == 2

\* the element type of a loaded model's tensors: one the harness supports and
\* one it does not
TensorTypes == {kTfLiteUInt8, kTfLiteInt32}

\* one element of the given type: the value 0 or 0.0
ZeroElem(type) == IF type = kTfLiteUInt8 THEN <<0>> ELSE <<0, 0, 0, 0>>

\* one element of the given type: the value 1 or 1.0
OneElem(type) ==
    IF type = kTfLiteUInt8 THEN <<1>>
    ELSE IF type = kTfLiteFloat32 THEN <<0, 0, 128, 63>>
    ELSE <<1, 0, 0, 0>>

\* what Invoke may leave in a one-element output tensor
InvokeSample(type) == {ZeroElem(type), OneElem(type)}

\* what a fill-callback writes into a one-element input tensor
CreateInputFill(type) == IF type = kTfLiteUInt8 THEN <<255>> ELSE <<255, 0, 0, 0>>

\* the entries a caller builds for an engine whose tensors have these types: raw
\* input with an expected output of the tensor's size, a fill-callback with the
\* same, and raw input with an expected output one element too long
EntrySample(inType, outType) ==
    { InOut(TRUE, OneElem(inType), ZeroElem(outType)),
      InOut(FALSE, <<>>, ZeroElem(outType)),
      InOut(TRUE, OneElem(inType), ZeroElem(outType) \o ZeroElem(outType)) }

\* every sequence of at most n elements of S
RECURSIVE SeqsUpTo(_, _)
SeqsUpTo(S, n) ==
    IF n = 0 THEN {<<>>}
    ELSE LET T == SeqsUpTo(S, n - 1) IN T \cup {Append(t, x) : t \in T, x \in S}

\* a sequence is n copies of one sampled entry
SequenceSample(inType, outType) ==
    {Fill(e, n) : e \in EntrySample(inType, outType), n \in 0..MaxSeqLen}

\* microseconds between the two clock readings around Invoke
ElapsedSample == {0, 600000}

\* timeout, in seconds
TimeoutSample == {Zero, FromInt(1)}

\* a result of an earlier run, left in the caller's vector
OldResult == InferenceResult(FromInt(7), Zero, Zero, <<9>>, 5, 5)

-----------------------------------------------------------------------------
(* The benchmark loop: its pieces *)

\* mutant of SequenceIndex: the step counter, held at the last sequence
SequenceIndex_Clamped(index, size) == IF index < size THEN index ELSE size - 1

\* const int inputOutputSequenceIndex = seqInferenceIndex % inOutData.size();
SequenceIndex(index, size) == index % size

UsecPerSec == 1000000

\* static_cast<float>(endTime - startTime) / 1000000.0f
InferenceTime(startTime, endTime) ==
    FDiv(FromInt(endTime - startTime), FromInt(UsecPerSec))

\* mutant of TimedOut: the timeout never stops the loop
TimedOut_Never(total, limit) == FALSE

\* mutant of TimedOut: stop once the timeout is reached, not only once exceeded
TimedOut_AtLimit(total, limit) == ~FGt(limit, total)

\* if (inferenceTotal > timeout)
TimedOut(total, limit) == FGt(total, limit)

\* mutant of WithOutputError: the error is computed whatever the flags are
WithOutputError_Always(fl, res, e) ==
    [res EXCEPT !.meanSquareError = e.meanSquareError,
                !.maxSingleError = e.maxSingleError]

\* if ((flags & FLAG_IGNORE_GOLDEN_OUTPUT) == 0) getOutputError(..., &result);
\* e is what getOutputError computes
WithOutputError(fl, res, e) ==
    IF FlagClear(fl, FLAG_IGNORE_GOLDEN_OUTPUT)
    THEN [res EXCEPT !.meanSquareError = e.meanSquareError,
                     !.maxSingleError = e.maxSingleError]
    ELSE res

\* mutant of WithInferenceOutput: the output is saved when the flag is set
WithInferenceOutput_Inverted(fl, res, tensor) ==
    IF FlagClear(fl, FLAG_DISCARD_INFERENCE_OUTPUT) THEN res
    ELSE saveInferenceOutput(res, tensor)

\* if ((flags & FLAG_DISCARD_INFERENCE_OUTPUT) == 0) saveInferenceOutput(&result);
WithInferenceOutput(fl, res, tensor) ==
    IF FlagClear(fl, FLAG_DISCARD_INFERENCE_OUTPUT)
    THEN saveInferenceOutput(res, tensor)
    ELSE res

\* mutant of push_back: the new result takes the place of the last one
push_back_Overwrite(vec, res) ==
    IF vec = <<>> THEN <<res>> ELSE [vec EXCEPT ![Len(vec)] = res]

\* results->push_back(result)
push_back(vec, res) == Append(vec, res)

\* the calls of one entry up to and including the input provision, which
\* succeeds (ok) or not
InputCalls(data, ok) ==
    <<"ATrace_beginSection", "ATrace_beginSection",
      IF data.hasInput
      THEN (IF ok THEN "setInput" ELSE "setInput failed")
      ELSE (IF ok THEN "createInput" ELSE "createInput failed")>>

\* mutant of InvokeCalls: the start time is read before the inner span ends
InvokeCalls_EarlyStart(ok) ==
    <<"currentTimeInUsec", "ATrace_endSection",
      IF ok THEN "Invoke" ELSE "Invoke failed",
      "ATrace_endSection", "currentTimeInUsec">>

\* the calls from the end of the inner span to the second clock reading, with
\* an Invoke that succeeds (ok) or not
InvokeCalls(ok) ==
    <<"ATrace_endSection", "currentTimeInUsec",
      IF ok THEN "Invoke" ELSE "Invoke failed",
      "ATrace_endSection", "currentTimeInUsec">>

\* the calls that finish an entry whose inference succeeded; fatal is the
\* FATAL sites getOutputError passed without stopping
ResultCalls(fl, fatal) ==
    (IF FlagClear(fl, FLAG_IGNORE_GOLDEN_OUTPUT)
     THEN <<"getOutputError">> \o Fill("FATAL", Len(fatal)) ELSE <<>>)
    \o (IF FlagClear(fl, FLAG_DISCARD_INFERENCE_OUTPUT)
        THEN <<"saveInferenceOutput">> ELSE <<>>)
    \o <<"push_back">>

\* the input tensor once the entry's input is provided: setInput for raw bytes
\* (its return value is dropped), the fill-callback's bytes otherwise
InputProvided(data) ==
    IF data.hasInput
    THEN setInput(inputType, inputData, data.input, Len(data.input)).tensor
    ELSE Memcpy(inputData, CreateInputFill(inputType), Len(inputData))

\* what the input provision of lines 232-241 returned when control goes on:
\* setInput's value for raw bytes, true for a fill-callback that did not fail
InputOk(data) ==
    IF data.hasInput
    THEN setInput(inputType, inputData, data.input, Len(data.input)).ok
    ELSE TRUE

InEntry == pc = "inner" /\ i < Len(seq)

-----------------------------------------------------------------------------
(* The benchmark loop: the process *)

\* the process before its static initializers ran, with a constructed engine
\* of the given element type
Loaded(type) ==
    /\ ndebug \in BOOLEAN
    /\ inputType = type
    /\ outputType = type
    /\ inputData = ZeroElem(type)
    /\ outputData = ZeroElem(type)
    /\ inOutData = <<>>
    /\ seqInferencesMaxCount = 0
    /\ timeout = Zero
    /\ flags = 0
    /\ results = <<>>
    /\ resultsAtCall = <<>>
    /\ seqInferenceIndex = 0
    /\ inputOutputSequenceIndex = 0
    /\ seq = <<>>
    /\ resetOk = TRUE
    /\ i = 0
    /\ inferenceTotal = Zero
    /\ result = NoResult
    /\ ret = TRUE

\* the tracing functions resolved, a model of any sampled type loaded
Init ==
    /\ Constructed
    /\ \E type \in TensorTypes : Loaded(type)
    /\ kTraceFunc = [begin |-> TRUE, end |-> TRUE]
    /\ pc = "idle"
    /\ trace = <<"dlopen", "dlsym", "dlsym">>

\* the process at its start, a uint8 model loaded
InitTrace ==
    /\ Constructed
    /\ Loaded(kTfLiteUInt8)
    /\ kTraceFunc = [begin |-> FALSE, end |-> FALSE]
    /\ pc = "static_init"
    /\ trace = <<>>

\* static TraceFunc kTraceFunc { setupTraceFunc() }: dlopen fails or not; without
\* the library FATAL stops the process or, under NDEBUG, dlsym is given the null
\* handle; each dlsym finds its symbol or returns null
setupTraceFunc ==
    /\ pc = "static_init"
    /\ \E lib \in BOOLEAN, begin \in BOOLEAN, end \in BOOLEAN :
          IF FatalStops(ndebug, IF lib THEN <<>> ELSE <<"FATAL: unable to open libandroid.so">>)
          THEN /\ pc' = "aborted"
               /\ trace' = <<"dlopen", "FATAL">>
               /\ UNCHANGED kTraceFunc
          ELSE /\ pc' = "idle"
               /\ trace' = <<"dlopen">> \o (IF lib THEN <<>> ELSE <<"FATAL">>)
                           \o <<"dlsym", "dlsym">>
               /\ kTraceFunc' = [begin |-> begin, end |-> end]
    /\ UNCHANGED <<engine, ndebug, inputType, inputData, outputType, outputData, inOutData,
                   seqInferencesMaxCount, timeout, flags, results, resultsAtCall,
                   seqInferenceIndex, inputOutputSequenceIndex, seq, resetOk, i,
                   inferenceTotal, result, ret>>

\* benchmark(inOutData, seqInferencesMaxCount, timeout, flags, results) called
\* with a collection of at most seqs sequences: lines 214-219, up to the first
\* test of the outer loop
BenchmarkCalled(seqs, olds) ==
    /\ pc = "idle"
    /\ \E data \in SeqsUpTo(SequenceSample(inputType, outputType), seqs),
          count \in 0..MaxSteps,
          limit \in TimeoutSample,
          fl \in 0..(FLAG_IGNORE_GOLDEN_OUTPUT + FLAG_DISCARD_INFERENCE_OUTPUT),
          old \in olds :
          /\ inOutData' = data
          /\ seqInferencesMaxCount' = count
          /\ timeout' = limit
          /\ flags' = fl
          /\ results' = old
          /\ resultsAtCall' = old
          /\ IF data = <<>>
             THEN /\ trace' = Append(trace, "FATAL")
                  /\ pc' = IF ndebug THEN "outer" ELSE "aborted"
             ELSE /\ trace' = trace
                  /\ pc' = "outer"
    /\ inferenceTotal' = Zero
    /\ seqInferenceIndex' = 0
    /\ UNCHANGED <<engine, ndebug, kTraceFunc, inputType, inputData, outputType, outputData,
                   inputOutputSequenceIndex, seq, resetOk, i, result, ret>>

\* a call on a vector that holds the result of an earlier run
benchmark == BenchmarkCalled(MaxSeqs, {<<OldResult>>})

\* a call with one sequence at most, on an empty vector
benchmarkOnce == BenchmarkCalled(1, {<<>>})

\* line 219 false, line 270: every step is done
LoopEnds ==
    /\ pc = "outer"
    /\ ~(seqInferenceIndex < seqInferencesMaxCount)
    /\ pc' = "returned"
    /\ ret' = TRUE
    /\ UNCHANGED <<engine, ndebug, kTraceFunc, inputType, inputData, outputType, outputData,
                   inOutData, seqInferencesMaxCount, timeout, flags, results,
                   resultsAtCall, seqInferenceIndex, inputOutputSequenceIndex, seq,
                   resetOk, i, inferenceTotal, result, trace>>

\* lines 219-221: the outer loop goes on and calls resetStates(), which fails
\* or not
StepBegins ==
    /\ pc = "outer"
    /\ seqInferenceIndex < seqInferencesMaxCount
    /\ resetOk' \in BOOLEAN
    /\ pc' = "reset"
    /\ trace' = Append(trace, "resetStates")
    /\ UNCHANGED <<engine, ndebug, kTraceFunc, inputType, inputData, outputType, outputData,
                   inOutData, seqInferencesMaxCount, timeout, flags, results,
                   resultsAtCall, seqInferenceIndex, inputOutputSequenceIndex, seq,
                   i, inferenceTotal, result, ret>>

\* mutant of SequenceSelected: a failed resetStates() ends the run
SequenceSelected_ResetChecked ==
    /\ pc = "reset"
    /\ inOutData # <<>>
    /\ resetOk' = TRUE
    /\ inputOutputSequenceIndex' = SequenceIndex(seqInferenceIndex, Len(inOutData))
    /\ seq' = inOutData[inputOutputSequenceIndex' + 1]
    /\ i' = 0
    /\ pc' = IF resetOk THEN "inner" ELSE "returned"
    /\ ret' = resetOk
    /\ UNCHANGED <<engine, ndebug, kTraceFunc, inputType, inputData, outputType,
                   outputData, inOutData, seqInferencesMaxCount, timeout, flags,
                   results, resultsAtCall, seqInferenceIndex, inferenceTotal, result,
                   trace>>

\* lines 221-225: the value of resetStates() is dropped, the sequence of this
\* step is selected
SequenceSelected ==
    /\ pc = "reset"
    /\ inOutData # <<>>
    /\ resetOk' = TRUE
    /\ inputOutputSequenceIndex' = SequenceIndex(seqInferenceIndex, Len(inOutData))
    /\ seq' = inOutData[inputOutputSequenceIndex' + 1]
    /\ i' = 0
    /\ pc' = "inner"
    /\ UNCHANGED <<engine, ndebug, kTraceFunc, inputType, inputData, outputType, outputData,
                   inOutData, seqInferencesMaxCount, timeout, flags, results,
                   resultsAtCall, seqInferenceIndex, inferenceTotal, result, ret,
                   trace>>

\* lines 223-224 on an empty collection (reached only under NDEBUG): the
\* remainder by zero and the element of an empty vector are undefined; the
\* process stops on a signal, or goes on with whatever memory holds as a sequence
SelectedFromEmpty ==
    /\ pc = "reset"
    /\ inOutData = <<>>
    /\ resetOk' = TRUE
    /\ \/ /\ pc' = "crashed"
          /\ UNCHANGED <<inputOutputSequenceIndex, seq, i>>
       \/ /\ pc' = "inner"
          /\ inputOutputSequenceIndex' \in 0..1
          /\ seq' \in {<<>>, <<InOut(TRUE, OneElem(inputType), ZeroElem(outputType))>>}
          /\ i' = 0
    /\ UNCHANGED <<engine, ndebug, kTraceFunc, inputType, inputData, outputType, outputData,
                   inOutData, seqInferencesMaxCount, timeout, flags, results,
                   resultsAtCall, seqInferenceIndex, inferenceTotal, result, ret,
                   trace>>

\* line 230 with a null ATrace_beginSection: the call through it ends the process
BeginSectionCrash ==
    /\ InEntry
    /\ ~kTraceFunc.begin
    /\ pc' = "crashed"
    /\ UNCHANGED <<engine, ndebug, kTraceFunc, inputType, inputData, outputType, outputData,
                   inOutData, seqInferencesMaxCount, timeout, flags, results,
                   resultsAtCall, seqInferenceIndex, inputOutputSequenceIndex, seq,
                   resetOk, i, inferenceTotal, result, ret, trace>>

\* lines 230-242 with a null ATrace_endSection: the input is provided, then the
\* call through the null pointer ends the process
EndSectionCrash ==
    /\ InEntry
    /\ kTraceFunc.begin
    /\ ~kTraceFunc.end
    /\ inputData' = InputProvided(seq[i + 1])
    /\ trace' = trace \o InputCalls(seq[i + 1], InputOk(seq[i + 1]))
    /\ pc' = "crashed"
    /\ UNCHANGED <<engine, ndebug, kTraceFunc, inputType, outputType, outputData,
                   inOutData, seqInferencesMaxCount, timeout, flags, results,
                   resultsAtCall, seqInferenceIndex, inputOutputSequenceIndex, seq,
                   resetOk, i, inferenceTotal, result, ret>>

\* lines 230-239: the fill-callback reports failure
CreateInputFails ==
    /\ InEntry
    /\ kTraceFunc.begin
    /\ ~seq[i + 1].hasInput
    /\ trace' = trace \o InputCalls(seq[i + 1], FALSE)
    /\ ret' = FALSE
    /\ pc' = "returned"
    /\ UNCHANGED <<engine, ndebug, kTraceFunc, inputType, inputData, outputType, outputData,
                   inOutData, seqInferencesMaxCount, timeout, flags, results,
                   resultsAtCall, seqInferenceIndex, inputOutputSequenceIndex, seq,
                   resetOk, i, inferenceTotal, result>>

\* mutant of InferenceFails: the failed inference is tried again
InferenceFails_Retried ==
    /\ InEntry
    /\ kTraceFunc.begin
    /\ kTraceFunc.end
    /\ inputData' = InputProvided(seq[i + 1])
    /\ outputData' \in InvokeSample(outputType)
    /\ trace' = trace \o InputCalls(seq[i + 1], InputOk(seq[i + 1]))
                \o InvokeCalls(FALSE)
    /\ \A k \in DOMAIN trace : trace[k] # "Invoke failed"
    /\ UNCHANGED <<engine, ndebug, kTraceFunc, inputType, outputType,
                   inOutData, seqInferencesMaxCount, timeout, flags, results,
                   resultsAtCall, seqInferenceIndex, inputOutputSequenceIndex, seq,
                   resetOk, i, inferenceTotal, result, pc, ret>>

\* lines 230-249: the input is provided and runInference() fails
InferenceFails ==
    /\ InEntry
    /\ kTraceFunc.begin
    /\ kTraceFunc.end
    /\ inputData' = InputProvided(seq[i + 1])
    /\ outputData' \in InvokeSample(outputType)
    /\ trace' = trace \o InputCalls(seq[i + 1], InputOk(seq[i + 1]))
                \o InvokeCalls(FALSE)
    /\ ret' = FALSE
    /\ pc' = "returned"
    /\ UNCHANGED <<engine, ndebug, kTraceFunc, inputType, outputType,
                   inOutData, seqInferencesMaxCount, timeout, flags, results,
                   resultsAtCall, seqInferenceIndex, inputOutputSequenceIndex, seq,
                   resetOk, i, inferenceTotal, result>>

\* lines 230-255: inference succeeds and getOutputError stops the process at a
\* FATAL
OutputErrorFatal ==
    /\ InEntry
    /\ kTraceFunc.begin
    /\ kTraceFunc.end
    /\ FlagClear(flags, FLAG_IGNORE_GOLDEN_OUTPUT)
    /\ inputData' = InputProvided(seq[i + 1])
    /\ \E out \in InvokeSample(outputType), usec \in ElapsedSample :
       \E fill \in OverreadFills(seq[i + 1].output, Len(out)) :
          LET data == seq[i + 1]
              e == getOutputError(outputType, out,
                                  MemoryBehind(data.output, Len(out), fill),
                                  Len(data.output))
          IN  /\ FatalStops(ndebug, e.fatal)
              /\ outputData' = out
              /\ result' = InferenceResult(InferenceTime(0, usec), Zero, Zero, <<>>,
                                           inputOutputSequenceIndex, i)
    /\ trace' = trace \o InputCalls(seq[i + 1], InputOk(seq[i + 1]))
                \o InvokeCalls(TRUE) \o <<"getOutputError", "FATAL">>
    /\ pc' = "aborted"
    /\ UNCHANGED <<engine, ndebug, kTraceFunc, inputType, outputType,
                   inOutData, seqInferencesMaxCount, timeout, flags, results,
                   resultsAtCall, seqInferenceIndex, inputOutputSequenceIndex, seq,
                   resetOk, i, inferenceTotal, ret>>

\* lines 230-262: one entry from the first span to inferenceTotal += inferenceTime
EntryCompletes ==
    /\ InEntry
    /\ kTraceFunc.begin
    /\ kTraceFunc.end
    /\ inputData' = InputProvided(seq[i + 1])
    /\ \E out \in InvokeSample(outputType), usec \in ElapsedSample :
       \E fill \in OverreadFills(seq[i + 1].output, Len(out)) :
          LET data == seq[i + 1]
              inferenceTime == InferenceTime(0, usec)
              e == getOutputError(outputType, out,
                                  MemoryBehind(data.output, Len(out), fill),
                                  Len(data.output))
              fatal == IF FlagClear(flags, FLAG_IGNORE_GOLDEN_OUTPUT)
                       THEN e.fatal ELSE <<>>
              built == WithInferenceOutput(flags,
                           WithOutputError(flags,
                               InferenceResult(inferenceTime, Zero, Zero, <<>>,
                                               inputOutputSequenceIndex, i), e),
                           out)
          IN  /\ ~FatalStops(ndebug, fatal)
              /\ outputData' = out
              /\ result' = built
              /\ results' = push_back(results, built)
              /\ inferenceTotal' = FAdd(inferenceTotal, inferenceTime)
              /\ trace' = trace \o InputCalls(data, InputOk(data))
                          \o InvokeCalls(TRUE) \o ResultCalls(flags, fatal)
    /\ i' = i + 1
    /\ UNCHANGED <<engine, ndebug, kTraceFunc, inputType, outputType,
                   inOutData, seqInferencesMaxCount, timeout, flags,
                   resultsAtCall, seqInferenceIndex, inputOutputSequenceIndex, seq,
                   resetOk, pc, ret>>

\* line 225 false, lines 265-268 and the ++seqInferenceIndex of line 220
SequenceDone ==
    /\ pc = "inner"
    /\ ~(i < Len(seq))
    /\ IF TimedOut(inferenceTotal, timeout)
       THEN /\ pc' = "returned"
            /\ ret' = TRUE
            /\ UNCHANGED seqInferenceIndex
       ELSE /\ pc' = "outer"
            /\ seqInferenceIndex' = seqInferenceIndex + 1
            /\ UNCHANGED ret
    /\ UNCHANGED <<engine, ndebug, kTraceFunc, inputType, inputData, outputType, outputData,
                   inOutData, seqInferencesMaxCount, timeout, flags, results,
                   resultsAtCall, inputOutputSequenceIndex, seq, resetOk, i,
                   inferenceTotal, result, trace>>

Next ==
    \/ benchmark
    \/ LoopEnds
    \/ StepBegins
    \/ SequenceSelected
    \/ SelectedFromEmpty
    \/ CreateInputFails
    \/ InferenceFails
    \/ OutputErrorFatal
    \/ EntryCompletes
    \/ SequenceDone

NextTrace ==
    \/ setupTraceFunc
    \/ benchmarkOnce
    \/ LoopEnds
    \/ StepBegins
    \/ SequenceSelected
    \/ SelectedFromEmpty
    \/ BeginSectionCrash
    \/ EndSectionCrash
    \/ CreateInputFails
    \/ InferenceFails
    \/ OutputErrorFatal
    \/ EntryCompletes
    \/ SequenceDone

SpecTrace == InitTrace /\ [][NextTrace]_vars

Spec == Init /\ [][Next]_vars

-----------------------------------------------------------------------------
(* The constructor, resizeInputTensors and dumpAllLayers: sampled data *)

\* tensors between the input and the output of a model
MaxIntermediates == 1

\* calls of resizeInputTensors on one engine
MaxResizes == 1

\* char fullpath[1024]
FullpathSize == 1024

\* a tensor of the interpreter: data.raw is non-null or not, and its bytes
Tensor(raw, data) == [raw |-> raw, data |-> data]

\* a tensor between input and output: without storage, or holding one byte
IntermediateSample == {Tensor(FALSE, <<>>), Tensor(TRUE, <<7>>)}

\* n elements of the given type, all zero
ZeroTensor(type, n) == [k \in 1..(n * Len(ZeroElem(type))) |-> 0]

\* the entries handed to dumpAllLayers: raw input bytes, of one element
DumpEntrySample(type) == { InOut(TRUE, OneElem(type), ZeroElem(type)) }

DumpSequenceSample(type) ==
    {Fill(e, n) : e \in DumpEntrySample(type), n \in 0..MaxSeqLen}

\* directories: a short one, and one that leaves no room for the tensor index
\* of "/dump_000_seq_000_tensor_000" in fullpath
PathSample == { <<"/", "d">>, Fill("d", FullpathSize - 26) }

-----------------------------------------------------------------------------
(* The constructor, resizeInputTensors and dumpAllLayers: their pieces *)

Digit(d) == <<"0", "1", "2", "3", "4", "5", "6", "7", "8", "9">>[d + 1]

\* the decimal digits of n >= 0
RECURSIVE Digits(_)
Digits(n) == IF n < 10 THEN <<Digit(n)>> ELSE Append(Digits(n \div 10), Digit(n % 10))

\* "%.3d" of n >= 0: three digits at least
Precision3(n) ==
    IF Len(Digits(n)) >= 3 THEN Digits(n) ELSE Fill("0", 3 - Len(Digits(n))) \o Digits(n)

\* snprintf(buffer, size, ...): the first size - 1 characters of the text
Snprintf(size, text) == IF Len(text) < size THEN text ELSE SubSeq(text, 1, size - 1)

\* snprintf(fullpath, 1024, "%s/dump_%.3d_seq_%.3d_tensor_%.3d",
\*          path, seqInferenceIndex, i, tensor)
DumpName(dir, index, entry, tensor) ==
    Snprintf(FullpathSize,
             dir \o <<"/", "d", "u", "m", "p", "_">> \o Precision3(index)
                 \o <<"_", "s", "e", "q", "_">> \o Precision3(entry)
                 \o <<"_", "t", "e", "n", "s", "o", "r", "_">> \o Precision3(tensor))

\* mTfliteInterpreter->tensor(0 .. tensors_size() - 1), from 1
TensorTable(input, middle, output) ==
    <<Tensor(TRUE, input)>> \o middle \o <<Tensor(TRUE, output)>>

\* the files lines 296-308 write for one entry, tensor by tensor from the
\* k-th on: none for a tensor whose data.raw is null
RECURSIVE DumpFiles(_, _, _, _, _)
DumpFiles(dir, index, entry, table, k) ==
    IF k > Len(table) THEN <<>>
    ELSE (IF table[k].raw
          THEN <<[name |-> DumpName(dir, index, entry, k - 1), data |-> table[k].data]>>
          ELSE <<>>)
         \o DumpFiles(dir, index, entry, table, k + 1)

\* the calls that write n files
RECURSIVE WriteCalls(_)
WriteCalls(n) ==
    IF n = 0 THEN <<>> ELSE <<"fopen", "fwrite", "fclose">> \o WriteCalls(n - 1)

\* mutant of DumpEntryCalls: the state is reset before every entry
DumpEntryCalls_ResetFirst(inputOk, invokeOk, written) ==
    <<"resetStates", IF inputOk THEN "setInput" ELSE "setInput failed">>
    \o (IF invokeOk THEN <<"Invoke">> \o WriteCalls(written) ELSE <<"Invoke failed">>)

\* lines 289-308: the calls of one entry of dumpAllLayers
DumpEntryCalls(inputOk, invokeOk, written) ==
    <<IF inputOk THEN "setInput" ELSE "setInput failed">>
    \o (IF invokeOk THEN <<"Invoke">> \o WriteCalls(written) ELSE <<"Invoke failed">>)

\* what the constructor calls and logs
ConstructorCalls(loaded, built, dump, use_nnapi, delegateOk) ==
    <<"BuildFromFile">>
    \o (IF ~loaded THEN <<"ERROR: Failed to load model">>
        ELSE <<"InterpreterBuilder">>
             \o (IF ~built THEN <<"ERROR: Failed to create TFlite interpreter">>
                 ELSE (IF dump THEN <<"SetOutputs">> ELSE <<>>)
                      \o <<"SetAllowFp16PrecisionForFp32">>
                      \o (IF ~use_nnapi THEN <<>>
                          ELSE <<"ModifyGraphWithDelegate">>
                               \o (IF delegateOk THEN <<>>
                                   ELSE <<"ERROR: Failed to initialize NNAPI Delegate">>))))

\* the variables of benchmark() that the constructor and dumpAllLayers leave alone
benchmarkVars ==
    <<kTraceFunc, seqInferencesMaxCount, timeout, flags, results, resultsAtCall,
      inputOutputSequenceIndex, inferenceTotal, result>>

-----------------------------------------------------------------------------
(* The constructor, resizeInputTensors and dumpAllLayers: the process *)

\* the process after its static initializers, before the engine is constructed;
\* the model file to load has tensors of any sampled type
InitDump ==
    /\ \E type \in TensorTypes : Loaded(type)
    /\ mTfliteModel = FALSE
    /\ mTfliteInterpreter = FALSE
    /\ allocated = FALSE
    /\ intermediates \in SeqsUpTo(IntermediateSample, MaxIntermediates)
    /\ path = <<>>
    /\ files = <<>>
    /\ kTraceFunc = [begin |-> TRUE, end |-> TRUE]
    /\ pc = "unconstructed"
    /\ trace = <<>>

\* BenchmarkModel(modelfile, use_nnapi, enable_intermediate_tensors_dump): the
\* file loads or not, the interpreter is built or not, the delegate binds or not
BenchmarkModel ==
    /\ pc = "unconstructed"
    /\ \E loaded \in BOOLEAN, built \in BOOLEAN, dump \in BOOLEAN,
          use_nnapi \in BOOLEAN, delegateOk \in BOOLEAN :
          /\ mTfliteModel' = loaded
          /\ mTfliteInterpreter' = (loaded /\ built)
          /\ trace' = ConstructorCalls(loaded, built, dump, use_nnapi, delegateOk)
    /\ pc' = "constructed"
    /\ UNCHANGED <<allocated, intermediates, path, files, ndebug, inputType,
                   inputData, outputType, outputData, inOutData, seqInferenceIndex,
                   seq, resetOk, i, ret, benchmarkVars>>

\* resizeInputTensors(shape): the call through a null mTfliteInterpreter ends the
\* process; otherwise the input tensor gets the new size and AllocateTensors()
\* succeeds or not
resizeInputTensors ==
    /\ pc = "constructed"
    /\ Cardinality({k \in DOMAIN trace : trace[k] = "ResizeInputTensor"}) < MaxResizes
    /\ IF ~mTfliteInterpreter
       THEN /\ pc' = "crashed"
            /\ UNCHANGED <<allocated, inputData, outputData, ret, trace>>
       ELSE \E shape \in 1..MaxElems, ok \in BOOLEAN :
               /\ trace' = trace \o <<"ResizeInputTensor",
                                      IF ok THEN "AllocateTensors"
                                      ELSE "AllocateTensors failed">>
               /\ inputData' = ZeroTensor(inputType, shape)
               /\ outputData' = ZeroElem(outputType)
               /\ allocated' = ok
               /\ ret' = ok
               /\ pc' = "constructed"
    /\ UNCHANGED <<mTfliteModel, mTfliteInterpreter, intermediates, path, files,
                   ndebug, inputType, outputType, inOutData, seqInferenceIndex, seq,
                   resetOk, i, benchmarkVars>>

\* dumpAllLayers(path, inOutData): lines 277-281, up to the first test of the
\* outer loop
dumpAllLayers ==
    /\ pc = "constructed"
    /\ \E data \in SeqsUpTo(DumpSequenceSample(inputType), MaxSeqs),
          dir \in PathSample :
          /\ inOutData' = data
          /\ path' = dir
          /\ IF data = <<>>
             THEN /\ trace' = Append(trace, "FATAL")
                  /\ pc' = IF ndebug THEN "dump_outer" ELSE "aborted"
             ELSE /\ trace' = trace
                  /\ pc' = "dump_outer"
    /\ seqInferenceIndex' = 0
    /\ UNCHANGED <<mTfliteModel, mTfliteInterpreter, allocated, intermediates, files,
                   ndebug, inputType, inputData, outputType, outputData, seq,
                   resetOk, i, ret, benchmarkVars>>

\* line 281 false, line 311
DumpLoopEnds ==
    /\ pc = "dump_outer"
    /\ ~(seqInferenceIndex < Len(inOutData))
    /\ pc' = "returned"
    /\ ret' = TRUE
    /\ UNCHANGED <<engine, ndebug, inputType, inputData, outputType, outputData,
                   inOutData, seqInferenceIndex, seq, resetOk, i, trace,
                   benchmarkVars>>

\* lines 281-286: resetStates() and the sequence of this step; resetStates()
\* succeeds or fails and its value is dropped at once, so both outcomes leave
\* the same state; the call through a null mTfliteInterpreter ends the process
DumpStepBegins ==
    /\ pc = "dump_outer"
    /\ seqInferenceIndex < Len(inOutData)
    /\ IF ~mTfliteInterpreter
       THEN /\ pc' = "crashed"
            /\ UNCHANGED <<seq, resetOk, i, trace>>
       ELSE /\ UNCHANGED resetOk
            /\ trace' = Append(trace, "resetStates")
            /\ seq' = inOutData[seqInferenceIndex + 1]
            /\ i' = 0
            /\ pc' = "dump_inner"
    /\ UNCHANGED <<engine, ndebug, inputType, inputData, outputType, outputData,
                   inOutData, seqInferenceIndex, ret, benchmarkVars>>

InDumpEntry == pc = "dump_inner" /\ i < Len(seq)

\* lines 289-293 on tensors that were never allocated: the memcpy to the null
\* data.raw ends the process; with an input type setInput rejects, nothing is
\* copied and Invoke fails on the interpreter that is not ready
DumpUnallocated ==
    /\ InDumpEntry
    /\ ~allocated
    /\ IF setInput(inputType, inputData, seq[i + 1].input, Len(seq[i + 1].input)).ok
       THEN /\ trace' = Append(trace, "setInput")
            /\ pc' = "crashed"
            /\ UNCHANGED ret
       ELSE /\ trace' = trace \o DumpEntryCalls(FALSE, FALSE, 0)
            /\ pc' = "returned"
            /\ ret' = FALSE
    /\ UNCHANGED <<engine, ndebug, inputType, inputData, outputType, outputData,
                   inOutData, seqInferenceIndex, seq, resetOk, i, benchmarkVars>>

\* lines 289-293: the input is set (the value of setInput is dropped) and
\* runInference() fails
DumpInferenceFails ==
    /\ InDumpEntry
    /\ allocated
    /\ LET data == seq[i + 1]
           set == setInput(inputType, inputData, data.input, Len(data.input))
       IN  /\ inputData' = set.tensor
           /\ trace' = trace \o DumpEntryCalls(set.ok, FALSE, 0)
    /\ outputData' \in InvokeSample(outputType)
    /\ pc' = "returned"
    /\ ret' = FALSE
    /\ UNCHANGED <<engine, ndebug, inputType, outputType, inOutData,
                   seqInferenceIndex, seq, resetOk, i, benchmarkVars>>

\* lines 289-305: inference succeeds and the fopen of one of the entry's files
\* returns null, which fwrite is then given: the process ends with the files
\* before that one written
DumpOpenFails ==
    /\ InDumpEntry
    /\ allocated
    /\ \E out \in InvokeSample(outputType) :
          LET data == seq[i + 1]
              set == setInput(inputType, inputData, data.input, Len(data.input))
              all == DumpFiles(path, seqInferenceIndex, i,
                               TensorTable(set.tensor, intermediates, out), 1)
          IN  \E n \in 0..(Len(all) - 1) :
                 /\ inputData' = set.tensor
                 /\ outputData' = out
                 /\ files' = files \o SubSeq(all, 1, n)
                 /\ trace' = trace \o DumpEntryCalls(set.ok, TRUE, n)
                                   \o <<"fopen failed", "fwrite">>
    /\ pc' = "crashed"
    /\ UNCHANGED <<mTfliteModel, mTfliteInterpreter, allocated, intermediates, path,
                   ndebug, inputType, outputType, inOutData, seqInferenceIndex, seq,
                   resetOk, i, ret, benchmarkVars>>

\* lines 289-308: one entry, from setInput to the last file written
DumpEntryCompletes ==
    /\ InDumpEntry
    /\ allocated
    /\ \E out \in InvokeSample(outputType) :
          LET data == seq[i + 1]
              set == setInput(inputType, inputData, data.input, Len(data.input))
              all == DumpFiles(path, seqInferenceIndex, i,
                               TensorTable(set.tensor, intermediates, out), 1)
          IN  /\ inputData' = set.tensor
              /\ outputData' = out
              /\ files' = files \o all
              /\ trace' = trace \o DumpEntryCalls(set.ok, TRUE, Len(all))
    /\ i' = i + 1
    /\ UNCHANGED <<mTfliteModel, mTfliteInterpreter, allocated, intermediates, path,
                   ndebug, inputType, outputType, inOutData, seqInferenceIndex, seq,
                   resetOk, pc, ret, benchmarkVars>>

\* line 286 false and the ++seqInferenceIndex of line 282
DumpSequenceDone ==
    /\ pc = "dump_inner"
    /\ ~(i < Len(seq))
    /\ seqInferenceIndex' = seqInferenceIndex + 1
    /\ pc' = "dump_outer"
    /\ UNCHANGED <<engine, ndebug, inputType, inputData, outputType, outputData,
                   inOutData, seq, resetOk, i, ret, trace, benchmarkVars>>

NextDump ==
    \/ BenchmarkModel
    \/ resizeInputTensors
    \/ dumpAllLayers
    \/ DumpLoopEnds
    \/ DumpStepBegins
    \/ DumpUnallocated
    \/ DumpInferenceFails
    \/ DumpOpenFails
    \/ DumpEntryCompletes
    \/ DumpSequenceDone

SpecDump == InitDump /\ [][NextDump]_vars

-----------------------------------------------------------------------------
(* Claims about the error metric, under SpecErr *)

\* the expected buffer handed to getOutputError
ErrExpected == inOutData[1][1].output

ErrSupported == outputType \in {kTfLiteUInt8, kTfLiteFloat32}

\* the output tensor and the expected buffer as elements of the tensor's type
ErrElems(data) ==
    IF outputType = kTfLiteUInt8 THEN UInt8Elems(data, Len(data))
    ELSE FloatElems(data, Len(data) \div SizeofFloat)

\* getOutputError has returned for buffers of one length and a supported type
ErrComputed ==
    /\ pc = "computed"
    /\ ErrSupported
    /\ Len(ErrExpected) = Len(outputData)

ErrIdentical == ErrComputed /\ ErrExpected = outputData /\ Len(outputData) > 0

IsFinite(a) == a.d # 0

ErrAllFinite == \A k \in DOMAIN ErrElems(outputData) : IsFinite(ErrElems(outputData)[k])

\* C6 as stated: identical non-empty buffers of a supported type give
\* meanSquareError = 0 and maxSingleError = 0.
C6_Original ==
    ErrIdentical => result.meanSquareError = Zero /\ result.maxSingleError = Zero

\* C6 amended: identical non-empty buffers of a supported type give
\* meanSquareError = 0 and maxSingleError = 0 when every element is finite; with
\* a NaN or an infinite float element meanSquareError is NaN (x - x is NaN) and
\* maxSingleError is still 0.
C6_IdenticalBuffers ==
    ErrIdentical =>
        /\ result.maxSingleError = Zero
        /\ result.meanSquareError = (IF ErrAllFinite THEN Zero ELSE NaN)

C6_Witness ==
    /\ ErrIdentical
    /\ outputType = kTfLiteFloat32
    /\ Len(outputData) = MaxElems * SizeofFloat
    /\ ErrAllFinite
    /\ FloatAt(outputData, 1) # Zero
    /\ result.meanSquareError = Zero

\* the differences produced - expected that are numbers
ErrDiffs ==
    LET p == ErrElems(outputData)
        e == ErrElems(ErrExpected)
    IN  {d \in {FSub(p[k], e[k]) : k \in DOMAIN p} : ~IsNaN(d)}

\* max(0, max_i(produced_i - expected_i)), NaN differences left out
ErrSignedMax ==
    CHOOSE m \in ErrDiffs \cup {Zero} : \A d \in ErrDiffs \cup {Zero} : ~FGt(d, m)

\* C7: maxSingleError is the signed maximum max(0, max_i(produced_i -
\* expected_i)): one element with produced > expected gives produced - expected,
\* and no element with produced > expected gives 0, whatever meanSquareError is.
C7_SignedMax ==
    ErrComputed =>
        LET p == ErrElems(outputData)
            e == ErrElems(ErrExpected)
        IN  /\ result.maxSingleError = ErrSignedMax
            /\ (Len(p) = 1 /\ FGt(p[1], e[1]) =>
                    result.maxSingleError = FSub(p[1], e[1]))
            /\ ((\A k \in DOMAIN p : ~FGt(p[k], e[k])) =>
                    result.maxSingleError = Zero)

\* every element has produced <= expected, one strictly: the maximum stays 0
\* while the mean square error is positive
C7_Witness ==
    /\ ErrComputed
    /\ Len(outputData) > 0
    /\ \A k \in DOMAIN ErrElems(outputData) :
          FGt(ErrElems(ErrExpected)[k], ErrElems(outputData)[k])
    /\ result.maxSingleError = Zero
    /\ FGt(result.meanSquareError, Zero)

-----------------------------------------------------------------------------
(* Claims about the benchmark loop, under Spec *)

\* what the call appended to the caller's vector
NewResults == SubSeq(results, Len(resultsAtCall) + 1, Len(results))

\* the (sequence index, entry index) pairs of the appended results
Tags == [k \in DOMAIN NewResults |->
            <<NewResults[k].inputOutputSequenceIndex, NewResults[k].inputOutputIndex>>]

\* the pairs of the first n entries of outer step s
TagsOfStep(s, n) == [k \in 1..n |-> <<s % Len(inOutData), k - 1>>]

\* the pairs of the complete outer steps 0 .. s-1
RECURSIVE TagsUpTo(_)
TagsUpTo(s) ==
    IF s = 0 THEN <<>>
    ELSE TagsUpTo(s - 1)
         \o TagsOfStep(s - 1, Len(inOutData[((s - 1) % Len(inOutData)) + 1]))

\* benchmark() is running or is over, on a collection that is not empty
Running == pc \notin {"idle", "static_init"} /\ inOutData # <<>>

\* the call is inside outer step seqInferenceIndex, or ended inside it
InStep ==
    /\ pc \in {"inner", "returned", "aborted", "crashed"}
    /\ seqInferenceIndex < seqInferencesMaxCount

FlagSet(flag) == ~FlagClear(flags, flag)

Count(ev) == Cardinality({k \in DOMAIN trace : trace[k] = ev})

\* an input provision or an Invoke failed
SomeFailure ==
    \E k \in DOMAIN trace :
        trace[k] \in {"setInput failed", "createInput failed", "Invoke failed"}

\* C1: with a single sequence of length L and maxSteps = N, when no input
\* provision and no Invoke fails and the accumulated time never exceeds the
\* timeout, benchmark returns true having appended exactly N * L results, each
\* with sequence index 0.
C1_SingleSequence ==
    (/\ pc = "returned"
     /\ Len(inOutData) = 1
     /\ ~SomeFailure
     /\ ~FGt(inferenceTotal, timeout))
    => /\ ret = TRUE
       /\ Len(NewResults) = seqInferencesMaxCount * Len(inOutData[1])
       /\ \A k \in DOMAIN NewResults : NewResults[k].inputOutputSequenceIndex = 0

C1_Witness ==
    /\ pc = "returned"
    /\ Len(inOutData) = 1
    /\ Len(inOutData[1]) = MaxSeqLen
    /\ seqInferencesMaxCount = MaxSteps
    /\ ~SomeFailure
    /\ ~FGt(inferenceTotal, timeout)
    /\ FGt(inferenceTotal, Zero)
    /\ Len(NewResults) = MaxSteps * MaxSeqLen

\* C2: outer step s runs the sequence at index s mod n, and the results of step
\* s carry sequence index s mod n and entry indices 0, 1, ... in order.
C2_RoundRobin ==
    Running =>
        /\ Tags = TagsUpTo(seqInferenceIndex)
                  \o (IF InStep THEN TagsOfStep(seqInferenceIndex, i) ELSE <<>>)
        /\ pc = "inner" =>
              /\ inputOutputSequenceIndex = seqInferenceIndex % Len(inOutData)
              /\ seq = inOutData[(seqInferenceIndex % Len(inOutData)) + 1]

\* two sequences of lengths 2 and 1, three steps: step 2 is tagged 0 again
C2_Witness ==
    /\ pc = "returned"
    /\ ret = TRUE
    /\ seqInferenceIndex = 3
    /\ Len(inOutData) = 2
    /\ Len(inOutData[1]) = 2
    /\ Len(inOutData[2]) = 1
    /\ Tags = << <<0, 0>>, <<0, 1>>, <<1, 0>>, <<0, 0>>, <<0, 1>> >>

\* C3, in a state: when benchmark returns true the appended results are those
\* of complete sequences
C3_CompleteSequences ==
    (Running /\ pc = "returned" /\ ret = TRUE) =>
        \E k \in 0..seqInferencesMaxCount : Tags = TagsUpTo(k)

\* C3, in a step: the timeout is tested only when a sequence is finished; if
\* the accumulated time then exceeds it, benchmark returns true without another
\* call; inside a sequence the loop goes on whatever the accumulated time is;
\* nothing happens after the return
C3_StopsAtBoundary ==
    /\ (pc = "inner" /\ ~(i < Len(seq)) /\ FGt(inferenceTotal, timeout)) =>
          /\ pc' = "returned"
          /\ ret' = TRUE
          /\ trace' = trace
          /\ results' = results
    /\ (pc = "inner" /\ i < Len(seq)) =>
          (pc' = "returned" => ret' = FALSE)
    /\ pc # "returned"

\* C3: benchmark stops once the accumulated time exceeds the timeout, and only
\* at a sequence boundary.
C3_Timeout == [](C3_CompleteSequences) /\ [][C3_StopsAtBoundary]_vars

\* the timeout was exceeded inside a sequence of two entries and the run went
\* on to the boundary, where it stopped with steps left
C3_Witness ==
    /\ Running
    /\ pc = "returned"
    /\ ret = TRUE
    /\ seqInferenceIndex + 1 < seqInferencesMaxCount
    /\ Len(seq) = 2
    /\ Len(NewResults) = 2
    /\ FGt(NewResults[1].computeTimeSec, timeout)

\* C4: with FLAG_IGNORE_GOLDEN_OUTPUT set every appended result has
\* meanSquareError = 0 and maxSingleError = 0.
C4_IgnoreGoldenOutput ==
    FlagSet(FLAG_IGNORE_GOLDEN_OUTPUT) =>
        \A k \in DOMAIN NewResults :
            /\ NewResults[k].meanSquareError = Zero
            /\ NewResults[k].maxSingleError = Zero

\* the flag is set, the output differs from the expected output, which has the
\* wrong length as well, and the result is appended with zero errors
C4_Witness ==
    /\ FlagSet(FLAG_IGNORE_GOLDEN_OUTPUT)
    /\ pc = "inner"
    /\ i > 0
    /\ Len(seq[i].output) # Len(outputData)
    /\ outputData # ZeroElem(outputType)
    /\ Len(NewResults) > 0
    /\ result = NewResults[Len(NewResults)]
    /\ result.meanSquareError = Zero

\* C5, in a state: with FLAG_DISCARD_INFERENCE_OUTPUT set every appended result
\* has an empty inferenceOutput
C5_Discarded ==
    FlagSet(FLAG_DISCARD_INFERENCE_OUTPUT) =>
        \A k \in DOMAIN NewResults : NewResults[k].inferenceOutput = <<>>

\* C5, in a step: a result is appended by the entry whose Invoke just ran, and
\* without the flag holds the whole output tensor as that Invoke left it
C5_Captured ==
    (pc = "inner" /\ results' # results) =>
        /\ Len(results') = Len(results) + 1
        /\ SubSeq(results', 1, Len(results)) = results
        /\ trace'[Len(trace) + 6] = "Invoke"
        /\ FlagClear(flags, FLAG_DISCARD_INFERENCE_OUTPUT) =>
              results'[Len(results')].inferenceOutput = outputData'

\* C5: the captured output is empty with FLAG_DISCARD_INFERENCE_OUTPUT and the
\* full output tensor of the entry's own Invoke without it.
C5_InferenceOutput == [](C5_Discarded) /\ [][C5_Captured]_vars

\* without the flag, two results of one run hold two different outputs
C5_Witness ==
    /\ FlagClear(flags, FLAG_DISCARD_INFERENCE_OUTPUT)
    /\ pc = "returned"
    /\ Len(NewResults) = 2
    /\ NewResults[1].inferenceOutput = OneElem(outputType)
    /\ NewResults[2].inferenceOutput = ZeroElem(outputType)

\* C8 as stated: a size mismatch found by getOutputError ends the process at
\* the FATAL: nothing is compared or written after it and no result is appended.
\* (With a supported output type the FATAL of getOutputError is the size one.)
C8_Original ==
    outputType = kTfLiteUInt8 =>
        \A k \in 2..Len(trace) :
            (trace[k] = "FATAL" /\ trace[k - 1] = "getOutputError") =>
                pc = "aborted" /\ k = Len(trace)

\* C9: when the fill-callback or Invoke fails, benchmark returns false at once:
\* no result is appended for the entry, the failed call is not repeated, and no
\* input is provided and no inference run afterwards.
C9_FailureReturns ==
    /\ Running => Len(NewResults) = Count("push_back")
    /\ \A k \in DOMAIN trace :
          /\ trace[k] = "createInput failed" =>
                pc = "returned" /\ ret = FALSE /\ k = Len(trace)
          /\ trace[k] = "Invoke failed" =>
                /\ pc = "returned"
                /\ ret = FALSE
                /\ SubSeq(trace, k + 1, Len(trace))
                       = <<"ATrace_endSection", "currentTimeInUsec">>

\* Invoke fails at the second entry of the second step: the results of the
\* entries before it are all there are
C9_Witness ==
    /\ pc = "returned"
    /\ ret = FALSE
    /\ Count("Invoke failed") = 1
    /\ seqInferenceIndex = 1
    /\ i = 1
    /\ Len(NewResults) = Len(inOutData[1]) + 1

\* C10 as stated: without the tracing library, or without one of its two
\* symbols, the process neither terminates nor crashes.
C10_Original ==
    /\ pc = "aborted" => trace # <<"dlopen", "FATAL">>
    /\ pc = "crashed" => kTraceFunc.begin /\ kTraceFunc.end

\* C12 as stated: benchmark on an empty collection ends the process at the
\* FATAL of line 215, before resetStates(), the index computation, any input
\* provision, any Invoke and any push_back.
C12_Original ==
    (pc \notin {"idle", "static_init"} /\ inOutData = <<>>) =>
        /\ pc = "aborted"
        /\ trace[Len(trace)] = "FATAL"
        /\ Count("resetStates") = 0

\* the calls before position k of the trace that are ev
CountBefore(ev, k) == Cardinality({j \in 1..(k - 1) : trace[j] = ev})

\* C15, in a state: resetStates() was called once for every outer step begun,
\* each time at a sequence boundary (the results pushed before it are those of
\* the complete steps before it), so before the first input of its step and
\* never between two entries of one sequence
C15_OncePerStep ==
    Running =>
        /\ Count("resetStates")
              = seqInferenceIndex + (IF pc = "reset" \/ InStep THEN 1 ELSE 0)
        /\ \A k \in DOMAIN trace :
              trace[k] = "resetStates" =>
                 /\ CountBefore("push_back", k)
                       = Len(TagsUpTo(CountBefore("resetStates", k)))
                 /\ k < Len(trace) =>
                       trace[k + 1] \in {"ATrace_beginSection", "resetStates"}

\* C15, in a step: whatever resetStates() returned, the loop goes on to the
\* entries of the step's sequence: nothing is returned, the results are kept
C15_ResetIgnored ==
    (pc = "reset" /\ inOutData # <<>>) =>
        /\ pc' = "inner"
        /\ i' = 0
        /\ seq' = inOutData[(seqInferenceIndex % Len(inOutData)) + 1]
        /\ ret' = ret
        /\ results' = results
        /\ trace' = trace

\* C15: resetStates() is called exactly once per outer step, before the first
\* input of the step and never between two entries of a sequence, and its
\* failure does not end the run.
C15_ResetStates == [](C15_OncePerStep) /\ [][C15_ResetIgnored]_vars

\* the reset of the second step has failed, after a first step of two entries
C15_Witness ==
    /\ Running
    /\ pc = "reset"
    /\ ~resetOk
    /\ seqInferenceIndex = 1
    /\ Count("resetStates") = 2
    /\ Len(NewResults) = 2

\* the calls the step made
NewCalls == SubSeq(trace', Len(trace) + 1, Len(trace'))

\* C16, in a step: an entry whose inference is invoked makes its calls in the
\* order begin span, begin span, input, end span, clock, Invoke, end span, clock
C16_EntryOrder ==
    (InEntry /\ \E k \in DOMAIN NewCalls : NewCalls[k] \in {"Invoke", "Invoke failed"}) =>
        /\ Len(NewCalls) >= 8
        /\ NewCalls[1] = "ATrace_beginSection"
        /\ NewCalls[2] = "ATrace_beginSection"
        /\ NewCalls[3] \in {"setInput", "setInput failed", "createInput"}
        /\ NewCalls[4] = "ATrace_endSection"
        /\ NewCalls[5] = "currentTimeInUsec"
        /\ NewCalls[6] \in {"Invoke", "Invoke failed"}
        /\ NewCalls[7] = "ATrace_endSection"
        /\ NewCalls[8] = "currentTimeInUsec"
        /\ \A k \in 9..Len(NewCalls) :
              NewCalls[k] \notin {"ATrace_beginSection", "ATrace_endSection",
                                  "currentTimeInUsec", "Invoke", "Invoke failed",
                                  "setInput", "setInput failed", "createInput"}

\* C16, in a step: the time of an appended result is the microseconds between
\* the two clock readings divided by 10^6, and the running total grows by it
C16_Elapsed ==
    (pc = "inner" /\ results' # results) =>
        LET r == results'[Len(results')]
        IN  /\ \E usec \in ElapsedSample :
                  FMul(r.computeTimeSec, FromInt(1000000)) = FromInt(usec)
            /\ inferenceTotal' = FAdd(inferenceTotal, r.computeTimeSec)
            /\ r = result'

\* C16: the calls of an entry come in the order begin outer span, begin inner
\* span, input, end inner span, start time, Invoke, end outer span, end time, so
\* the measured interval leaves the input provision out; the result's time is
\* that interval in seconds and is what is added to the running total.
C16_Timing == [][C16_EntryOrder /\ C16_Elapsed]_vars

\* two entries, one fed by a fill-callback, each measured at 0.6 s
C16_Witness ==
    /\ pc = "returned"
    /\ ret = TRUE
    /\ Len(NewResults) = 2
    /\ Count("createInput") = 2
    /\ NewResults[1].computeTimeSec = [n |-> 3, d |-> 5]
    /\ inferenceTotal = [n |-> 6, d |-> 5]

\* C17, in a state: the vector is what it held at the call followed by the
\* results of the entries completed, in the order they were run
C17_OldThenNew ==
    Running =>
        /\ Len(results) >= Len(resultsAtCall)
        /\ SubSeq(results, 1, Len(resultsAtCall)) = resultsAtCall
        /\ Len(NewResults) = Count("push_back")
        /\ Tags = TagsUpTo(seqInferenceIndex)
                  \o (IF InStep THEN TagsOfStep(seqInferenceIndex, i) ELSE <<>>)

\* C17, in a step: a step of the call leaves the vector as it is or appends
\* one result
C17_AppendOnly ==
    pc # "idle" =>
        \/ results' = results
        \/ /\ Len(results') = Len(results) + 1
           /\ SubSeq(results', 1, Len(results)) = results

\* C17: benchmark only appends to the caller's vector, also when it returns
\* false: the old elements and the results appended earlier stay as they are.
C17_OnlyAppends == [](C17_OldThenNew) /\ [][C17_AppendOnly]_vars

\* a run that fails at its third entry: the old result and the two new ones
C17_Witness ==
    /\ pc = "returned"
    /\ ret = FALSE
    /\ results[1] = OldResult
    /\ Len(results) = 3
    /\ Tags = << <<0, 0>>, <<1, 0>> >>

\* C18 as stated: whenever benchmark returns, it made as many calls of
\* ATrace_endSection as of ATrace_beginSection.
C18_Original ==
    (Running /\ pc = "returned") =>
        Count("ATrace_endSection") = Count("ATrace_beginSection")

\* the input provision at position k of the trace was followed by an Invoke
\* before the next entry began
InvokedAfter(k) ==
    \E j \in (k + 1)..Len(trace) :
        /\ trace[j] \in {"Invoke", "Invoke failed"}
        /\ \A h \in (k + 1)..j : trace[h] # "ATrace_beginSection"

\* the input provision at position k of the trace was followed by a push_back
\* before the next entry began
PushedAfter(k) ==
    \E j \in (k + 1)..Len(trace) :
        /\ trace[j] = "push_back"
        /\ \A h \in (k + 1)..j : trace[h] # "ATrace_beginSection"

\* C19 as stated: after a failed input provision, of a fill-callback or of
\* setInput on an input tensor of an unsupported type, the entry's inference is
\* not invoked and no result is appended for it.
C19_Original ==
    \A k \in DOMAIN trace :
        trace[k] \in {"createInput failed", "setInput failed"} =>
            ~InvokedAfter(k) /\ ~PushedAfter(k)

-----------------------------------------------------------------------------
(* Claims about the constructor and dumpAllLayers, under SpecDump *)

\* the constructor logged one of its three errors and returned early
ConstructFailed ==
    \E k \in DOMAIN trace :
        trace[k] \in {"ERROR: Failed to load model",
                      "ERROR: Failed to create TFlite interpreter",
                      "ERROR: Failed to initialize NNAPI Delegate"}

\* the members hold what they hold after a constructor that ran to its end
MembersAsReady == mTfliteModel /\ mTfliteInterpreter

\* C11 as stated: after each of the three failures of the constructor the
\* engine differs from a READY one in what a readiness check can read, its
\* members, and nothing later makes it READY.
C11_Original == ConstructFailed => ~MembersAsReady

IsDumpCall(ev) ==
    ev \in {"resetStates", "setInput", "setInput failed", "Invoke", "Invoke failed",
            "fopen", "fopen failed", "fwrite", "fclose"}

\* the calls dumpAllLayers made
DumpTrace == SelectSeq(trace, IsDumpCall)

\* the tensors that have storage: the input, the output and some in between
StoredTensors ==
    2 + Cardinality({k \in DOMAIN intermediates : intermediates[k].raw})

RECURSIVE Repeat(_, _)
Repeat(calls, n) == IF n = 0 THEN <<>> ELSE calls \o Repeat(calls, n - 1)

\* one entry: the input, the inference, then a file for every stored tensor
C13_Entry ==
    <<IF inputType \in {kTfLiteUInt8, kTfLiteFloat32} THEN "setInput"
      ELSE "setInput failed", "Invoke">>
    \o Repeat(<<"fopen", "fwrite", "fclose">>, StoredTensors)

\* sequences k .. n of the collection: one reset, then the entries in order
RECURSIVE C13_Sequences(_, _)
C13_Sequences(k, n) ==
    IF k > n THEN <<>>
    ELSE <<"resetStates">> \o Repeat(C13_Entry, Len(inOutData[k]))
         \o C13_Sequences(k + 1, n)

IsPrefix(a, b) == Len(a) <= Len(b) /\ a = SubSeq(b, 1, Len(a))

\* a with its last n calls replaced by the call ev
Instead(a, n, ev) == Append(SubSeq(a, 1, Len(a) - n), ev)

\* C13 as stated: every entry's input is preceded by a reset of the state.
C13_Original ==
    \A k \in DOMAIN DumpTrace :
        DumpTrace[k] \in {"setInput", "setInput failed"} =>
            k > 1 /\ DumpTrace[k - 1] = "resetStates"

\* C13 amended: dumpAllLayers goes through the sequences in order and through
\* the entries of each in order, up to the first inference that fails; it resets
\* the state once per sequence, before the first entry, and for every entry it
\* sets the raw input, invokes the inference and then writes the tensors, in
\* this order; a call that returns true has gone through every entry.
C13_PerSequence ==
    pc \in {"dump_outer", "dump_inner", "returned", "crashed"} =>
        LET all == C13_Sequences(1, Len(inOutData))
            n == Len(DumpTrace)
        IN  /\ \/ IsPrefix(DumpTrace, all)
               \/ /\ n >= 1
                  /\ DumpTrace[n] = "Invoke failed"
                  /\ pc = "returned" /\ ret = FALSE
                  /\ IsPrefix(Instead(DumpTrace, 1, "Invoke"), all)
               \/ /\ n >= 2
                  /\ DumpTrace[n - 1] = "fopen failed"
                  /\ pc = "crashed"
                  /\ IsPrefix(Instead(DumpTrace, 2, "fopen"), all)
            /\ (pc = "returned" /\ ret = TRUE) => DumpTrace = all
            /\ (pc = "returned" /\ ret = FALSE) => DumpTrace[n] = "Invoke failed"

\* two sequences, of two entries and of one: two resets, three inferences
C13_Witness ==
    /\ pc = "returned"
    /\ ret = TRUE
    /\ Len(inOutData) = 2
    /\ Len(inOutData[1]) = 2
    /\ Len(inOutData[2]) = 1
    /\ Cardinality({k \in DOMAIN trace : trace[k] = "resetStates"}) = 2
    /\ Cardinality({k \in DOMAIN trace : trace[k] = "Invoke"}) = 3
    /\ Len(files) = 3 * StoredTensors

\* "dump_00s_seq_00e_tensor_00t" under the directory, for indices below ten
C14_Name(s, e, t) ==
    path \o <<"/", "d", "u", "m", "p", "_", "0", "0", Digit(s),
              "_", "s", "e", "q", "_", "0", "0", Digit(e),
              "_", "t", "e", "n", "s", "o", "r", "_", "0", "0", Digit(t)>>

\* C14 as stated: the entries dumpAllLayers went through without failure left
\* one file for every tensor with storage and none for the others, each named
\* by its (sequence, entry, tensor) indices under the directory, and no two
\* files have one name.
C14_Original ==
    pc \in {"dump_outer", "dump_inner", "returned"} =>
        /\ Len(files)
             = StoredTensors * Cardinality({k \in DOMAIN trace : trace[k] = "Invoke"})
        /\ Cardinality({files[k].name : k \in DOMAIN files}) = Len(files)
        /\ \A k \in DOMAIN files :
              \E s \in 0..MaxSeqs, e \in 0..MaxSeqLen, t \in 0..(MaxIntermediates + 1) :
                  files[k].name = C14_Name(s, e, t)

====
